---------------------------- MODULE Spec2Model ----------------------------
(***************************************************************************)
(* A model of check-certs.go: main reads its hostnames, starts             *)
(* `concurrency` workers and one producer goroutine, and aggregates one    *)
(* result per hostname; each worker ranges over the unbuffered channel     *)
(* `queue`, runs checkCertificate on every hostname it receives and sends  *)
(* the result on the unbuffered channel `results`.                         *)
(*                                                                         *)
(* Strings that the code inspects (hostnames, file lines) are sequences of *)
(* one-character strings.  Instants (time.Time) are integers counted in    *)
(* days.  An unbuffered channel has no state of its own apart from being   *)
(* closed: a send and the matching receive are one step.                   *)
(***************************************************************************)
EXTENDS Integers, Sequences, FiniteSets, Bags, TLC

(***************************************************************************)
(* Bounds of the model.                                                    *)
(***************************************************************************)
MaxHosts == 2       \* positional hostnames on the command line
MaxC == 2           \* largest value of -concurrency
MaxClock == 1       \* the clock runs from 0 to MaxClock
MaxChain == 2       \* certificates in a peer chain
MaxTime == 2        \* NotAfter values range over 0..MaxTime
MaxDays == 1        \* -days ranges over -1..MaxDays

\* const ExUsage = 64
ExUsage == 64

VARIABLES
    args,           \* flag.Args(): the positional hostnames
    hostsFile,      \* *hostsFile, the -hosts flag ("" when not given)
    disk,           \* what the file system holds at that path
    days,           \* *days
    concurrency,    \* *concurrency
    net,            \* what a TLS dial to each address answers
    now,            \* the wall clock, time.Now()
    hosts,          \* main's hosts slice
    mainpc,         \* where main is
    i,              \* main's loop counter (the spawn loop, then the consume loop)
    anyErrors,      \* main's anyErrors
    exitStatus,     \* the process's exit status, meaningful once mainpc = "exited"
    prodpc,         \* where the producer goroutine is
    k,              \* the producer's position in hosts (1-based)
    queueClosed,    \* close(queue) has happened
    wk,             \* the workers: pc and the locals of worker/checkCertificate
    stderr,         \* the lines written to os.Stderr, in order
    received,       \* the results main has received, in order
    dialed,         \* bag of the addresses passed to tls.Dial
    closedConns     \* number of conn.Close() calls

vars == <<args, hostsFile, disk, days, concurrency, net, now, hosts, mainpc, i,
          anyErrors, exitStatus, prodpc, k, queueClosed, wk, stderr, received,
          dialed, closedConns>>

inputs == <<args, hostsFile, disk, days, concurrency, net>>

Workers == 1..MaxC

(***************************************************************************)
(* Strings                                                                 *)
(***************************************************************************)
HostA == <<"a">>
HostB == <<"b", ":", "8">>
Hostnames == {HostA, HostB}

\* strings.Contains(s, c) for a one-character c
Contains(s, c) == \E n \in DOMAIN s : s[n] = c

RECURSIVE TrimLeft(_)
TrimLeft(s) == IF s # <<>> /\ Head(s) = " " THEN TrimLeft(Tail(s)) ELSE s

RECURSIVE TrimRight(_)
TrimRight(s) ==
    IF s # <<>> /\ s[Len(s)] = " " THEN TrimRight(SubSeq(s, 1, Len(s) - 1)) ELSE s

\* strings.TrimSpace
TrimSpace(s) == TrimRight(TrimLeft(s))

(***************************************************************************)
(* Errors and results                                                      *)
(***************************************************************************)
\* an error value; nil is the record of kind "nil"
Error(kind, idx, cn, notAfter) ==
    [kind |-> kind, idx |-> idx, cn |-> cn, notAfter |-> notAfter]

nil == Error("nil", 0, "", 0)

\* type result struct { Hostname string; Err error }
result(Hostname, Err) == [Hostname |-> Hostname, Err |-> Err]

(***************************************************************************)
(* readHostsFile                                                           *)
(***************************************************************************)
\* the scanner loop: hosts = append(hosts, strings.TrimSpace(scanner.Text()))
ScanLines(lines) == [n \in DOMAIN lines |-> TrimSpace(lines[n])]

\* a readHostsFile that does not look at scanner.Err()
readHostsFileNoScanErr(path) ==
    CASE disk.state = "absent" ->
            [hosts |-> <<>>, err |-> Error("hosts file does not exist", 0, "", 0)]
      [] disk.state = "noperm" ->
            [hosts |-> <<>>, err |-> Error("error opening hosts file", 0, "", 0)]
      [] OTHER ->
            [hosts |-> ScanLines(disk.lines), err |-> nil]

\* readHostsFile(hostsFile) returns (hosts, err)
readHostsFile(path) ==
    CASE disk.state = "absent" ->
            [hosts |-> <<>>, err |-> Error("hosts file does not exist", 0, "", 0)]
      [] disk.state = "noperm" ->
            [hosts |-> <<>>, err |-> Error("error opening hosts file", 0, "", 0)]
      [] disk.state = "ioerr" ->
            [hosts |-> ScanLines(disk.lines),
             err |-> Error("error reading hosts file", 0, "", 0)]
      [] OTHER ->
            [hosts |-> ScanLines(disk.lines), err |-> nil]

(***************************************************************************)
(* checkCertificate                                                        *)
(***************************************************************************)
Port443 == <<":", "4", "4", "3">>

\* connectHost := host; if !strings.Contains(host, ":") { connectHost = host + ":443" }
ConnectHost(host) == IF ~Contains(host, ":") THEN host \o Port443 ELSE host

\* a result that reports the address dialed instead of the hostname given
NewResultNormalized(host) ==
    result(IF ~Contains(host, ":") THEN host \o Port443 ELSE host, nil)

\* r := result{Hostname: host}
NewResult(host) == result(host, nil)

\* tls.Dial("tcp", connectHost, ...): an address without a port is refused
\* by the dialer, any other address gets the network's answer
Dial(addr) ==
    IF addr \in DOMAIN net THEN net[addr] ELSE [ok |-> FALSE, chain |-> <<>>]

\* certExpiry := time.Now().AddDate(0, 0, *days)
CertExpiry(t, d) == t + d

\* a comparison that also flags a certificate expiring at the threshold
ExpiringOrAt(certExpiry, cert) == certExpiry >= cert.NotAfter

\* certExpiry.After(cert.NotAfter)
Expiring(certExpiry, cert) == certExpiry > cert.NotAfter

\* a loop over the chain that reports a connection without certificates
RECURSIVE RangeCertsEmptyFails(_, _, _)
RangeCertsEmptyFails(chain, certExpiry, n) ==
    IF chain = <<>> THEN Error("expires", 0, "", 0)
    ELSE IF n > Len(chain) THEN nil
    ELSE IF Expiring(certExpiry, chain[n])
         THEN Error("expires", n - 1, chain[n].CN, chain[n].NotAfter)
         ELSE RangeCertsEmptyFails(chain, certExpiry, n + 1)

\* for i, cert := range PeerCertificates { if ... { return r, errors.Errorf(...) } }
\* return r, nil             (n is the 1-based position, the code's i is n - 1)
RECURSIVE RangeCerts(_, _, _)
RangeCerts(chain, certExpiry, n) ==
    IF n > Len(chain) THEN nil
    ELSE IF Expiring(certExpiry, chain[n])
         THEN Error("expires", n - 1, chain[n].CN, chain[n].NotAfter)
         ELSE RangeCerts(chain, certExpiry, n + 1)

\* worker: r, err := checkCertificate(host); if err != nil { r.Err = err }
SetErr(r, err) == IF err # nil THEN [r EXCEPT !.Err = err] ELSE r

\* a worker that holds no hostname
Idle(pc) ==
    [pc |-> pc, host |-> <<>>, connectHost |-> <<>>, r |-> result(<<>>, nil),
     certExpiry |-> <<>>, began |-> <<>>]

(***************************************************************************)
(* Initial states: the command line, the file system and the network       *)
(***************************************************************************)
SeqsUpTo(S, n) == UNION {[1..m -> S] : m \in 0..n}

Addrs == {ConnectHost(h) : h \in Hostnames}

\* the subject common names of a chain: the leaf first, then its issuers
CommonName(n) == IF n = 1 THEN "leaf" ELSE "ca"

Chain(notAfters) ==
    [n \in DOMAIN notAfters |-> [CN |-> CommonName(n), NotAfter |-> notAfters[n]]]

Chains == {Chain(s) : s \in SeqsUpTo(0..MaxTime, MaxChain)}

DialFailed == [ok |-> FALSE, chain |-> <<>>]
Connected(chain) == [ok |-> TRUE, chain |-> chain]

Responses == {DialFailed} \cup {Connected(c) : c \in Chains}

\* a chain that is good for every threshold of the model, and one that is not
ChainGood == Chain(<<MaxClock + MaxDays + 1>>)
ChainBad == Chain(<<MaxClock + MaxDays + 1, 0>>)

FileContents == {<<>>, << <<" ", "a", " ">> >>, << <<"b", ":", "8">>, <<"a", " ">> >>}

InitProgram ==
    /\ now = 0
    /\ hosts = <<>>
    /\ mainpc = "args"
    /\ i = 0
    /\ anyErrors = FALSE
    /\ exitStatus = 0
    /\ prodpc = "notstarted"
    /\ k = 1
    /\ queueClosed = FALSE
    /\ wk = [w \in Workers |-> Idle("notstarted")]
    /\ stderr = <<>>
    /\ received = <<>>
    /\ dialed = EmptyBag
    /\ closedConns = 0

\* many hostnames on the command line, any concurrency, a network whose
\* answers are a failed dial, a good chain or an expiring one
InitDispatch ==
    /\ args \in SeqsUpTo(Hostnames, MaxHosts)
    /\ hostsFile = ""
    /\ disk = [state |-> "absent", lines |-> <<>>]
    /\ days = MaxDays
    /\ concurrency \in -1..MaxC
    /\ net \in [Addrs -> {DialFailed, Connected(ChainGood), Connected(ChainBad)}]

\* a hosts file is configured
InitFile ==
    /\ args \in SeqsUpTo(Hostnames, 1)
    /\ hostsFile = "hosts.txt"
    /\ disk \in [state : {"absent", "noperm", "ioerr", "ok"}, lines : FileContents]
    /\ days = MaxDays
    /\ concurrency \in 1..MaxC
    /\ net \in [Addrs -> {DialFailed, Connected(ChainGood)}]

\* one hostname, one worker, every answer of the network and every -days
InitCheck ==
    /\ args \in {<<h>> : h \in Hostnames}
    /\ hostsFile = ""
    /\ disk = [state |-> "absent", lines |-> <<>>]
    /\ days \in -1..MaxDays
    /\ concurrency = 1
    /\ net \in {[a \in Addrs |-> resp] : resp \in Responses}

Init == InitProgram /\ (InitDispatch \/ InitFile \/ InitCheck)

(***************************************************************************)
(* main                                                                    *)
(***************************************************************************)
Alive == mainpc # "exited"

\* os.Exit(code), and the return from main
Exit(code) == mainpc' = "exited" /\ exitStatus' = code

\* hosts = append(hosts, flag.Args()...)
MainArgs ==
    /\ mainpc = "args"
    /\ hosts' = hosts \o args
    /\ mainpc' = "file"
    /\ UNCHANGED <<inputs, now, i, anyErrors, exitStatus, prodpc, k, queueClosed,
                   wk, stderr, received, dialed, closedConns>>

\* if len(*hostsFile) > 0 { fileHosts, err := readHostsFile(*hostsFile) ... }
MainReadHosts ==
    /\ mainpc = "file"
    /\ IF Len(hostsFile) > 0
       THEN LET f == readHostsFile(hostsFile) IN
            IF f.err # nil
            THEN /\ stderr' = Append(stderr, [fmt |-> "error: %v", Hostname |-> <<>>, Err |-> f.err])
                 /\ Exit(ExUsage)
                 /\ UNCHANGED hosts
            ELSE /\ hosts' = hosts \o f.hosts
                 /\ mainpc' = "workers"
                 /\ UNCHANGED <<stderr, exitStatus>>
       ELSE /\ mainpc' = "workers"
            /\ UNCHANGED <<hosts, stderr, exitStatus>>
    /\ UNCHANGED <<inputs, now, i, anyErrors, prodpc, k, queueClosed, wk,
                   received, dialed, closedConns>>

\* a spawn loop that starts one worker more than *concurrency
MainStartWorkerOneMore ==
    /\ mainpc = "workers"
    /\ i <= concurrency
    /\ i + 1 \in Workers
    /\ wk' = [wk EXCEPT ![i + 1] = Idle("recv")]
    /\ i' = i + 1
    /\ UNCHANGED <<inputs, now, hosts, mainpc, anyErrors, exitStatus, prodpc, k,
                   queueClosed, stderr, received, dialed, closedConns>>

\* for i := 0; i < *concurrency; i++ { go worker(queue, results) }
MainStartWorker ==
    /\ mainpc = "workers"
    /\ i < concurrency
    /\ wk' = [wk EXCEPT ![i + 1] = Idle("recv")]
    /\ i' = i + 1
    /\ UNCHANGED <<inputs, now, hosts, mainpc, anyErrors, exitStatus, prodpc, k,
                   queueClosed, stderr, received, dialed, closedConns>>

\* a main that refuses a concurrency of zero or less before it dispatches
MainStartProducerValidated ==
    /\ mainpc = "workers"
    /\ ~(i < concurrency)
    /\ IF concurrency <= 0
       THEN /\ Exit(ExUsage)
            /\ UNCHANGED <<prodpc, k, anyErrors, i>>
       ELSE /\ prodpc' = "send"
            /\ k' = 1
            /\ anyErrors' = FALSE
            /\ i' = 0
            /\ mainpc' = "consume"
            /\ UNCHANGED exitStatus
    /\ UNCHANGED <<inputs, now, hosts, queueClosed, wk, stderr,
                   received, dialed, closedConns>>

\* go func() { ... }(); anyErrors := false; for i := 0; ...
MainStartProducer ==
    /\ mainpc = "workers"
    /\ ~(i < concurrency)
    /\ prodpc' = "send"
    /\ k' = 1
    /\ anyErrors' = FALSE
    /\ i' = 0
    /\ mainpc' = "consume"
    /\ UNCHANGED <<inputs, now, hosts, exitStatus, queueClosed, wk, stderr,
                   received, dialed, closedConns>>

\* a consume loop that asks for one result more than there are hostnames
ConsumeMoreOffByOne == i <= Len(hosts)

\* i < len(hosts), the condition of the consume loop
ConsumeMore == i < Len(hosts)

\* a consume loop that stops at the first failing result
ConsumeBreak(r) ==
    /\ IF r.Err # nil
       THEN /\ stderr' = Append(stderr, [fmt |-> "error: %s: %v", Hostname |-> r.Hostname, Err |-> r.Err])
            /\ anyErrors' = TRUE
            /\ i' = Len(hosts)
       ELSE /\ UNCHANGED <<stderr, anyErrors>>
            /\ i' = i + 1
    /\ received' = Append(received, r)

\* a consume loop whose flag follows the last result only
ConsumeLast(r) ==
    /\ IF r.Err # nil
       THEN stderr' = Append(stderr, [fmt |-> "error: %s: %v", Hostname |-> r.Hostname, Err |-> r.Err])
       ELSE UNCHANGED stderr
    /\ anyErrors' = (r.Err # nil)
    /\ i' = i + 1
    /\ received' = Append(received, r)

\* the body of the consume loop, once r := <-results has a value
Consume(r) ==
    /\ IF r.Err # nil
       THEN /\ stderr' = Append(stderr, [fmt |-> "error: %s: %v", Hostname |-> r.Hostname, Err |-> r.Err])
            /\ anyErrors' = TRUE
       ELSE UNCHANGED <<stderr, anyErrors>>
    /\ i' = i + 1
    /\ received' = Append(received, r)

\* a main that leaves the consume loop only once the queue is closed and every
\* worker has returned
MainConsumeDoneJoins ==
    /\ mainpc = "consume"
    /\ ~ConsumeMore
    /\ queueClosed
    /\ \A w \in Workers : wk[w].pc \in {"notstarted", "exited"}
    /\ mainpc' = "finish"
    /\ UNCHANGED <<inputs, now, hosts, i, anyErrors, exitStatus, prodpc, k,
                   queueClosed, wk, stderr, received, dialed, closedConns>>

\* the consume loop's condition fails
MainConsumeDone ==
    /\ mainpc = "consume"
    /\ ~ConsumeMore
    /\ mainpc' = "finish"
    /\ UNCHANGED <<inputs, now, hosts, i, anyErrors, exitStatus, prodpc, k,
                   queueClosed, wk, stderr, received, dialed, closedConns>>

\* if anyErrors { os.Exit(1) }, else main returns
MainExit ==
    /\ mainpc = "finish"
    /\ Exit(IF anyErrors THEN 1 ELSE 0)
    /\ UNCHANGED <<inputs, now, hosts, i, anyErrors, prodpc, k, queueClosed, wk,
                   stderr, received, dialed, closedConns>>

(***************************************************************************)
(* The producer goroutine and the workers                                  *)
(***************************************************************************)
\* a producer whose goroutine sends the last hostname every time
DeliverLast(w) ==
    /\ Alive
    /\ prodpc = "send"
    /\ k <= Len(hosts)
    /\ ~queueClosed
    /\ wk[w].pc = "recv"
    /\ LET host == hosts[Len(hosts)] IN
       /\ wk' = [wk EXCEPT ![w] =
                    [pc |-> "dialing", host |-> host, connectHost |-> ConnectHost(host),
                     r |-> NewResult(host), certExpiry |-> <<>>, began |-> <<now>>]]
       /\ dialed' = dialed (+) SetToBag({ConnectHost(host)})
    /\ k' = k + 1
    /\ UNCHANGED <<inputs, now, hosts, mainpc, i, anyErrors, exitStatus, prodpc,
                   queueClosed, stderr, received, closedConns>>

\* a producer whose send completes with no worker receiving (a buffered queue)
DeliverBuffered(w) ==
    /\ Alive
    /\ prodpc = "send"
    /\ k <= Len(hosts)
    /\ ~queueClosed
    /\ k' = k + 1
    /\ UNCHANGED <<inputs, now, hosts, mainpc, i, anyErrors, exitStatus, prodpc,
                   queueClosed, wk, stderr, received, dialed, closedConns>>

\* queue <- host in the producer meets `for host := range queue` in worker w,
\* which enters checkCertificate(host) and blocks in tls.Dial
Deliver(w) ==
    /\ Alive
    /\ prodpc = "send"
    /\ k <= Len(hosts)
    /\ ~queueClosed
    /\ wk[w].pc = "recv"
    /\ LET host == hosts[k] IN
       /\ wk' = [wk EXCEPT ![w] =
                    [pc |-> "dialing", host |-> host, connectHost |-> ConnectHost(host),
                     r |-> NewResult(host), certExpiry |-> <<>>, began |-> <<now>>]]
       /\ dialed' = dialed (+) SetToBag({ConnectHost(host)})
    /\ k' = k + 1
    /\ UNCHANGED <<inputs, now, hosts, mainpc, i, anyErrors, exitStatus, prodpc,
                   queueClosed, stderr, received, closedConns>>

\* a producer that closes the queue without finishing its loop
ProducerCloseEarly ==
    /\ Alive
    /\ prodpc = "send"
    /\ queueClosed' = TRUE
    /\ prodpc' = "done"
    /\ UNCHANGED <<inputs, now, hosts, mainpc, i, anyErrors, exitStatus, k, wk,
                   stderr, received, dialed, closedConns>>

\* a producer that returns without closing the queue
ProducerNoClose ==
    /\ Alive
    /\ prodpc = "send"
    /\ ~(k <= Len(hosts))
    /\ prodpc' = "done"
    /\ UNCHANGED <<inputs, now, hosts, mainpc, i, anyErrors, exitStatus, k, wk,
                   queueClosed, stderr, received, dialed, closedConns>>

\* close(queue), after the producer's loop
ProducerClose ==
    /\ Alive
    /\ prodpc = "send"
    /\ ~(k <= Len(hosts))
    /\ queueClosed' = TRUE
    /\ prodpc' = "done"
    /\ UNCHANGED <<inputs, now, hosts, mainpc, i, anyErrors, exitStatus, k, wk,
                   stderr, received, dialed, closedConns>>

\* a checkCertificate that goes on to the chain whatever tls.Dial returned
DialReturnUnchecked(w) ==
    /\ Alive
    /\ wk[w].pc = "dialing"
    /\ wk' = [wk EXCEPT ![w].pc = "connected"]
    /\ UNCHANGED <<inputs, now, hosts, mainpc, i, anyErrors, exitStatus, prodpc, k,
                   queueClosed, stderr, received, dialed, closedConns>>

\* a checkCertificate that dials a second time when the first dial fails
DialReturnRetry(w) ==
    /\ Alive
    /\ wk[w].pc = "dialing"
    /\ LET conn == Dial(wk[w].connectHost) IN
       IF ~conn.ok
       THEN /\ wk' = [wk EXCEPT ![w].pc = "send",
                                ![w].r = SetErr(wk[w].r, Error("tls dial", 0, "", 0))]
            /\ dialed' = dialed (+) SetToBag({wk[w].connectHost})
       ELSE /\ wk' = [wk EXCEPT ![w].pc = "connected"]
            /\ UNCHANGED dialed
    /\ UNCHANGED <<inputs, now, hosts, mainpc, i, anyErrors, exitStatus, prodpc, k,
                   queueClosed, stderr, received, closedConns>>

\* tls.Dial returns: with an error checkCertificate returns (r, "tls dial"
\* error) and the worker stores it in r.Err; otherwise the connection is open
DialReturn(w) ==
    /\ Alive
    /\ wk[w].pc = "dialing"
    /\ LET conn == Dial(wk[w].connectHost) IN
       IF ~conn.ok
       THEN wk' = [wk EXCEPT ![w].pc = "send",
                             ![w].r = SetErr(wk[w].r, Error("tls dial", 0, "", 0))]
       ELSE wk' = [wk EXCEPT ![w].pc = "connected"]
    /\ UNCHANGED <<inputs, now, hosts, mainpc, i, anyErrors, exitStatus, prodpc, k,
                   queueClosed, stderr, received, dialed, closedConns>>

\* a checkCertificate that takes its threshold from the clock at its entry
EvaluateAtStart(w) ==
    /\ Alive
    /\ wk[w].pc = "connected"
    /\ closedConns' = closedConns + 1
    /\ LET certExpiry == CertExpiry(wk[w].began[1], days)
           chain == Dial(wk[w].connectHost).chain
       IN wk' = [wk EXCEPT ![w].pc = "send",
                           ![w].certExpiry = <<certExpiry>>,
                           ![w].r = SetErr(wk[w].r, RangeCerts(chain, certExpiry, 1))]
    /\ UNCHANGED <<inputs, now, hosts, mainpc, i, anyErrors, exitStatus, prodpc, k,
                   queueClosed, stderr, received, dialed>>

\* a checkCertificate whose connection is shared by the workers: it reads the
\* chain of another check that is running, when there is one
EvaluateShared(w) ==
    /\ Alive
    /\ wk[w].pc = "connected"
    /\ closedConns' = closedConns + 1
    /\ LET certExpiry == CertExpiry(now, days)
           others == {v \in Workers \ {w} : wk[v].pc \in {"dialing", "connected", "send"}}
           v == IF others = {} THEN w ELSE CHOOSE x \in others : TRUE
           chain == Dial(wk[v].connectHost).chain
       IN wk' = [wk EXCEPT ![w].pc = "send",
                           ![w].certExpiry = <<certExpiry>>,
                           ![w].r = SetErr(wk[w].r, RangeCerts(chain, certExpiry, 1))]
    /\ UNCHANGED <<inputs, now, hosts, mainpc, i, anyErrors, exitStatus, prodpc, k,
                   queueClosed, stderr, received, dialed>>

\* conn.Close(); certExpiry := ...; the loop over PeerCertificates; the return
\* to the worker, which stores a non-nil error in r.Err
Evaluate(w) ==
    /\ Alive
    /\ wk[w].pc = "connected"
    /\ closedConns' = closedConns + 1
    /\ LET certExpiry == CertExpiry(now, days)
           chain == Dial(wk[w].connectHost).chain
       IN wk' = [wk EXCEPT ![w].pc = "send",
                           ![w].certExpiry = <<certExpiry>>,
                           ![w].r = SetErr(wk[w].r, RangeCerts(chain, certExpiry, 1))]
    /\ UNCHANGED <<inputs, now, hosts, mainpc, i, anyErrors, exitStatus, prodpc, k,
                   queueClosed, stderr, received, dialed>>

\* a worker that returns after sending a result that carries an error
CollectStopOnErr(w) ==
    /\ Alive
    /\ wk[w].pc = "send"
    /\ mainpc = "consume"
    /\ ConsumeMore
    /\ Consume(wk[w].r)
    /\ wk' = [wk EXCEPT ![w] = Idle(IF wk[w].r.Err # nil THEN "exited" ELSE "recv")]
    /\ UNCHANGED <<inputs, now, hosts, mainpc, exitStatus, prodpc, k, queueClosed,
                   dialed, closedConns>>

\* results <- r in worker w meets r := <-results in main's consume loop; the
\* worker goes back to the head of its range loop
Collect(w) ==
    /\ Alive
    /\ wk[w].pc = "send"
    /\ mainpc = "consume"
    /\ ConsumeMore
    /\ Consume(wk[w].r)
    /\ wk' = [wk EXCEPT ![w] = Idle("recv")]
    /\ UNCHANGED <<inputs, now, hosts, mainpc, exitStatus, prodpc, k, queueClosed,
                   dialed, closedConns>>

\* the range over a closed queue ends and worker returns
WorkerExit(w) ==
    /\ Alive
    /\ wk[w].pc = "recv"
    /\ queueClosed
    /\ wk' = [wk EXCEPT ![w] = Idle("exited")]
    /\ UNCHANGED <<inputs, now, hosts, mainpc, i, anyErrors, exitStatus, prodpc, k,
                   queueClosed, stderr, received, dialed, closedConns>>

\* time passes while a handshake is in flight or a connection is open
Tick ==
    /\ Alive
    /\ now < MaxClock
    /\ \E w \in Workers : wk[w].pc \in {"dialing", "connected"}
    /\ now' = now + 1
    /\ UNCHANGED <<inputs, hosts, mainpc, i, anyErrors, exitStatus, prodpc, k,
                   queueClosed, wk, stderr, received, dialed, closedConns>>

Progress ==
    \/ MainArgs
    \/ MainReadHosts
    \/ MainStartWorker
    \/ MainStartProducer
    \/ MainConsumeDone
    \/ MainExit
    \/ ProducerClose
    \/ \E w \in Workers : Deliver(w)
    \/ \E w \in Workers : DialReturn(w)
    \/ \E w \in Workers : Evaluate(w)
    \/ \E w \in Workers : Collect(w)
    \/ \E w \in Workers : WorkerExit(w)

Next == Progress \/ Tick

Spec == Init /\ [][Next]_vars

\* the runs of the dispatch on a frozen clock (Tick changes only `now`, which
\* no guard reads), with every step that stays enabled eventually taken: the
\* Go scheduler runs every runnable goroutine, and every dial returns
LiveInit == InitProgram /\ InitDispatch

LiveSpec == LiveInit /\ [][Progress]_vars /\ WF_vars(Progress)

\* the steps of a process whose main, having aggregated, does not return yet
KeptAlive ==
    \/ MainArgs
    \/ MainReadHosts
    \/ MainStartWorker
    \/ MainStartProducer
    \/ MainConsumeDone
    \/ ProducerClose
    \/ \E w \in Workers : Deliver(w)
    \/ \E w \in Workers : DialReturn(w)
    \/ \E w \in Workers : Evaluate(w)
    \/ \E w \in Workers : Collect(w)
    \/ \E w \in Workers : WorkerExit(w)

\* the dispatch with the process kept alive after the aggregation, every step
\* that stays enabled eventually taken
KeepAliveSpec == LiveInit /\ [][KeptAlive]_vars /\ WF_vars(KeptAlive)

(***************************************************************************)
(* Vocabulary of the properties                                            *)
(***************************************************************************)
RECURSIVE SeqToBag(_)
SeqToBag(s) == IF s = <<>> THEN EmptyBag ELSE SetToBag({Head(s)}) (+) SeqToBag(Tail(s))

HostnamesOf(rs) == [n \in DOMAIN rs |-> rs[n].Hostname]

HasErr(r) == r.Err # nil

\* main has left the consume loop (it did not stop on a usage error)
Aggregated == mainpc = "finish" \/ (mainpc = "exited" /\ exitStatus # ExUsage)

\* the producer goroutine has been started
Dispatched == prodpc # "notstarted"

\* worker w is inside checkCertificate or about to send its result
Holding(w) == wk[w].pc \in {"dialing", "connected", "send"}

\* worker w has a result to send
Sending(w) == wk[w].pc = "send"

\* what the network answered to worker w's dial
ConnOf(w) == net[wk[w].connectHost]

\* the lines of stderr as (hostname, error) pairs
Reported == [n \in DOMAIN stderr |-> result(stderr[n].Hostname, stderr[n].Err)]

(***************************************************************************)
(* C1: the hostnames of the results main has received never exceed the     *)
(* input multiset (no duplicate, none from outside the input), and once    *)
(* main has left the consume loop they are exactly the input multiset:     *)
(* len(hosts) results, none lost.                                          *)
(***************************************************************************)
C1_ExactlyOnce ==
    /\ SeqToBag(HostnamesOf(received)) \sqsubseteq SeqToBag(hosts)
    /\ Aggregated =>
          /\ Len(received) = Len(hosts)
          /\ SeqToBag(HostnamesOf(received)) = SeqToBag(hosts)

\* two workers have handled a list with a duplicate and a second hostname
C1_Witness ==
    /\ mainpc = "exited"
    /\ concurrency = 2
    /\ Len(hosts) = 3
    /\ hosts[1] = hosts[3]
    /\ hosts[2] # hosts[1]
    /\ Len(received) = 3

(***************************************************************************)
(* C2: with concurrency <= 0 the run fails fast: no worker and no producer *)
(* is started, nothing is dialed, main never reaches the consume loop and  *)
(* the only exit status is ExUsage.                                        *)
(***************************************************************************)
C2_FailFast ==
    concurrency <= 0 =>
        /\ \A w \in Workers : wk[w].pc = "notstarted"
        /\ ~Dispatched
        /\ dialed = EmptyBag
        /\ mainpc \in {"args", "file", "workers", "exited"}
        /\ mainpc = "exited" => exitStatus = ExUsage

(***************************************************************************)
(* C3: with concurrency >= 1, once main starts its workers it eventually   *)
(* exits having received len(hosts) results, whatever the number of        *)
(* hostnames is relative to the number of workers.                         *)
(***************************************************************************)
C3_Terminates ==
    (mainpc = "workers" /\ concurrency >= 1)
        ~> (mainpc = "exited" /\ Len(received) = Len(hosts))

\* fewer workers than hostnames, and main is through
C3_Witness ==
    /\ mainpc = "exited"
    /\ concurrency = 1
    /\ Len(hosts) = MaxHosts
    /\ Len(received) = MaxHosts

(***************************************************************************)
(* C4: main does not stop at a failing result: when it leaves the consume  *)
(* loop it has received len(hosts) results, and at every moment of the     *)
(* aggregation the diagnostic lines are exactly the received results that  *)
(* carry an error, one line each, in the order received.                   *)
(***************************************************************************)
C4_NoShortCircuit ==
    /\ Dispatched => Reported = SelectSeq(received, HasErr)
    /\ Aggregated => Len(received) = Len(hosts)

\* [fail, pass, fail] has been aggregated
C4_Witness ==
    /\ mainpc = "exited"
    /\ Len(received) = 3
    /\ HasErr(received[1])
    /\ ~HasErr(received[2])
    /\ HasErr(received[3])
    /\ Len(stderr) = 2

(***************************************************************************)
(* C5: after dispatch the exit status is 1 exactly when some received      *)
(* result carries an error and 0 exactly when none does, in every order of *)
(* arrival.                                                                *)
(***************************************************************************)
C5_Status ==
    (mainpc = "exited" /\ Dispatched) =>
        /\ exitStatus = 1 <=> \E n \in DOMAIN received : HasErr(received[n])
        /\ exitStatus = 0 <=> \A n \in DOMAIN received : ~HasErr(received[n])

\* the failing result came first, a passing one last, and the status is 1
C5_Witness ==
    /\ mainpc = "exited"
    /\ exitStatus = 1
    /\ Len(received) = 2
    /\ HasErr(received[1])
    /\ ~HasErr(received[2])

(***************************************************************************)
(* C6: after a successful dial, the check fails exactly when some          *)
(* certificate of the chain has NotAfter strictly before the threshold,    *)
(* and the error names the first such position with that certificate's     *)
(* common name and NotAfter.                                               *)
(***************************************************************************)
C6_FirstExpiring ==
    \A w \in Workers :
        (Sending(w) /\ wk[w].certExpiry # <<>>) =>
            LET chain == ConnOf(w).chain
                threshold == wk[w].certExpiry[1]
                err == wk[w].r.Err
                Before(n) == chain[n].NotAfter < threshold
            IN /\ HasErr(wk[w].r) <=> \E n \in DOMAIN chain : Before(n)
               /\ HasErr(wk[w].r) =>
                     /\ err.kind = "expires"
                     /\ err.idx + 1 \in DOMAIN chain
                     /\ Before(err.idx + 1)
                     /\ \A m \in 1..err.idx : ~Before(m)
                     /\ err.notAfter = chain[err.idx + 1].NotAfter
                     /\ err.cn = chain[err.idx + 1].CN

\* the leaf expires at the threshold instant and is passed over, the next
\* certificate expires before it and is reported at index 1
C6_Witness ==
    \E w \in Workers :
        /\ Sending(w)
        /\ wk[w].certExpiry # <<>>
        /\ Len(ConnOf(w).chain) = 2
        /\ ConnOf(w).chain[1].NotAfter = wk[w].certExpiry[1]
        /\ ConnOf(w).chain[2].NotAfter < wk[w].certExpiry[1]
        /\ wk[w].r.Err.idx = 1

(***************************************************************************)
(* C7: a failing check does not stop anything: a failed dial leaves the    *)
(* worker with a result carrying the error, a worker that hands over a     *)
(* failing result goes back to receiving from the queue while main stays   *)
(* in its consume loop, and main exits short of len(hosts) results only    *)
(* with the usage status, before dispatch.                                 *)
(***************************************************************************)
C7_FailureIsolated ==
    /\ [][\A w \in Workers :
            /\ (wk[w].pc = "dialing" /\ ~ConnOf(w).ok /\ wk'[w] # wk[w]) =>
                  /\ wk'[w].pc = "send"
                  /\ wk'[w].r.Hostname = wk[w].host
                  /\ HasErr(wk'[w].r)
            /\ (Sending(w) /\ HasErr(wk[w].r) /\ wk'[w] # wk[w]) =>
                  /\ wk'[w].pc = "recv"
                  /\ received' = Append(received, wk[w].r)
                  /\ mainpc' = "consume"]_vars
    /\ []((mainpc = "exited" /\ Len(received) < Len(hosts)) =>
             (exitStatus = ExUsage /\ ~Dispatched))

\* the only worker has delivered a failing result and is checking the next
\* hostname
C7_Witness ==
    /\ concurrency = 1
    /\ Len(received) = 1
    /\ HasErr(received[1])
    /\ wk[1].pc = "dialing"

(***************************************************************************)
(* C8: a worker dials host + ":443" when host has no ':' and host itself   *)
(* otherwise, that address is the one recorded as dialed, and the result   *)
(* it builds and every result main receives name the hostname as given.    *)
(***************************************************************************)
C8_Normalization ==
    /\ \A w \in Workers :
          Holding(w) =>
              /\ wk[w].connectHost =
                    IF \E n \in DOMAIN wk[w].host : wk[w].host[n] = ":"
                    THEN wk[w].host
                    ELSE wk[w].host \o <<":", "4", "4", "3">>
              /\ BagIn(wk[w].connectHost, dialed)
              /\ wk[w].r.Hostname = wk[w].host
              /\ \E n \in DOMAIN hosts : hosts[n] = wk[w].host
    /\ \A n \in DOMAIN received : \E m \in DOMAIN hosts : received[n].Hostname = hosts[m]

\* "a" was dialed as "a:443" and is reported as "a"
C8_Witness ==
    \E w \in Workers :
        /\ Sending(w)
        /\ wk[w].host = <<"a">>
        /\ wk[w].connectHost = <<"a", ":", "4", "4", "3">>
        /\ wk[w].r.Hostname = <<"a">>
        /\ BagToSet(dialed) = {<<"a", ":", "4", "4", "3">>}

(***************************************************************************)
(* C9: with a hosts file configured that is missing or cannot be read, no  *)
(* worker and no producer is started, nothing is dialed, and main exits    *)
(* with ExUsage, which is neither 0 nor 1.                                 *)
(***************************************************************************)
C9_HostsFileError ==
    (Len(hostsFile) > 0 /\ disk.state \in {"absent", "noperm", "ioerr"}) =>
        /\ \A w \in Workers : wk[w].pc = "notstarted"
        /\ ~Dispatched
        /\ dialed = EmptyBag
        /\ mainpc \in {"args", "file", "exited"}
        /\ mainpc = "exited" => (exitStatus = ExUsage /\ exitStatus \notin {0, 1})

\* the read failed after some lines had been scanned, and main has exited
C9_Witness ==
    /\ mainpc = "exited"
    /\ Len(hostsFile) > 0
    /\ disk.state = "ioerr"
    /\ disk.lines # <<>>
    /\ Len(stderr) = 1

(***************************************************************************)
(* C10: in one check, a failed dial gives the "tls dial" error and no      *)
(* threshold is computed; a successful dial gives the "expires" error when *)
(* some certificate is before the threshold and no error otherwise.        *)
(***************************************************************************)
C10_CheckOutcome ==
    \A w \in Workers :
        /\ wk[w].pc = "connected" => ConnOf(w).ok
        /\ Sending(w) =>
              IF ConnOf(w).ok
              THEN /\ wk[w].certExpiry # <<>>
                   /\ wk[w].r.Err.kind \in {"nil", "expires"}
                   /\ wk[w].r.Err.kind = "expires" <=>
                         \E n \in DOMAIN ConnOf(w).chain :
                             ConnOf(w).chain[n].NotAfter < wk[w].certExpiry[1]
              ELSE /\ wk[w].certExpiry = <<>>
                   /\ wk[w].r.Err.kind = "tls dial"

\* a dial has failed and the worker holds the connect error
C10_Witness ==
    \E w \in Workers :
        /\ Sending(w)
        /\ ~ConnOf(w).ok
        /\ wk[w].r.Err.kind = "tls dial"
        /\ wk[w].certExpiry = <<>>

(***************************************************************************)
(* C11: the queue is closed once, by the step that finds every hostname    *)
(* sent: at that step the hostnames handed to workers number len(hosts),   *)
(* and once the queue is closed it stays closed, the producer is done and  *)
(* nothing more is sent.                                                   *)
(***************************************************************************)
C11_CloseAfterAllSent ==
    /\ [](queueClosed => (prodpc = "done" /\ k = Len(hosts) + 1))
    /\ [][/\ (~queueClosed /\ queueClosed') =>
                (prodpc = "send" /\ k = Len(hosts) + 1
                    /\ BagCardinality(dialed) = Len(hosts))
          /\ queueClosed =>
                (queueClosed' /\ prodpc' = "done" /\ k' = k /\ dialed' = dialed)]_vars

\* the queue is closed after two sends, the second check still running
C11_Witness ==
    /\ queueClosed
    /\ Len(hosts) = 2
    /\ BagCardinality(dialed) = 2
    /\ \E w \in Workers : wk[w].pc = "dialing"

(***************************************************************************)
(* C12: with concurrency C >= 1 the workers started are exactly workers    *)
(* 1..C, a worker returns only from its receive on the closed queue, and   *)
(* in a process that is kept alive every one of the C workers eventually   *)
(* has returned, also those that never received a hostname.                *)
(***************************************************************************)
C12_WorkersTerminate ==
    /\ []((concurrency >= 1 /\ mainpc \notin {"args", "file", "workers"}) =>
             {w \in Workers : wk[w].pc # "notstarted"} = 1..concurrency)
    /\ [][\A w \in Workers :
            (wk[w].pc # "exited" /\ wk'[w].pc = "exited") =>
                (wk[w].pc = "recv" /\ queueClosed)]_vars
    /\ (mainpc = "workers" /\ concurrency >= 1)
          ~> (\A w \in 1..concurrency : wk[w].pc = "exited")

\* more workers than hostnames: both have returned, one never had a hostname
C12_Witness ==
    /\ concurrency = 2
    /\ Len(hosts) = 1
    /\ Len(received) = 1
    /\ \A w \in 1..2 : wk[w].pc = "exited"

(***************************************************************************)
(* C13: main leaves the consume loop as soon as it has len(hosts) results, *)
(* whether or not the queue is closed or a worker has returned; and        *)
(* whenever it has left the loop, every hostname has been handed out and   *)
(* no worker holds a hostname or a result.                                 *)
(***************************************************************************)
C13_CompletionByCount ==
    /\ (mainpc = "consume" /\ Len(received) = Len(hosts)) => ENABLED MainConsumeDone
    /\ Aggregated =>
          /\ k = Len(hosts) + 1
          /\ \A w \in Workers : ~Holding(w)

\* main has aggregated two results; the queue is still open and a worker is
\* still waiting on it
C13_Witness ==
    /\ mainpc = "finish"
    /\ Len(hosts) = 2
    /\ ~queueClosed
    /\ prodpc = "send"
    /\ \E w \in Workers : wk[w].pc = "recv"

\* the workers inside checkCertificate or about to send their result
InFlight == {w \in Workers : Holding(w)}

\* the dial behind result r had succeeded
DialSucceeded(r) == r.Err.kind # "tls dial"

(***************************************************************************)
(* C14: a send on either channel is one step with its receive: the         *)
(* hostnames sent number the hostnames workers have received, each of them *)
(* is in a worker or its result is with main (none in a buffer), the       *)
(* producer's position advances only together with a worker leaving its    *)
(* receive with that hostname, and main's results grow only by the result  *)
(* of a worker that was sending.                                           *)
(***************************************************************************)
C14_Rendezvous ==
    /\ [](k - 1 = BagCardinality(dialed))
    /\ [](k - 1 = Len(received) + Cardinality(InFlight))
    /\ [][/\ k' # k =>
               \E w \in Workers :
                   /\ wk[w].pc = "recv"
                   /\ wk'[w].pc = "dialing"
                   /\ wk'[w].host = hosts[k]
                   /\ k' = k + 1
          /\ received' # received =>
               \E w \in Workers :
                   /\ Sending(w)
                   /\ wk'[w].pc = "recv"
                   /\ received' = Append(received, wk[w].r)]_vars

\* the only worker is busy and the producer still has a hostname to send
C14_Witness ==
    /\ concurrency = 1
    /\ Len(hosts) = 2
    /\ prodpc = "send"
    /\ k = 2
    /\ wk[1].pc = "connected"

(***************************************************************************)
(* C15: there is one dial per check (the dials number the checks begun,    *)
(* failed or not), the connections closed number the checks whose dial     *)
(* succeeded and which have returned, and when main has aggregated the     *)
(* dials number len(hosts), one to the address of each hostname.           *)
(***************************************************************************)
C15_OneConnection ==
    /\ BagCardinality(dialed) = Len(received) + Cardinality(InFlight)
    /\ closedConns = Len(SelectSeq(received, DialSucceeded))
                        + Cardinality({w \in Workers : Sending(w) /\ ConnOf(w).ok})
    /\ Aggregated =>
          /\ BagCardinality(dialed) = Len(hosts)
          /\ dialed = SeqToBag([n \in DOMAIN hosts |-> ConnectHost(hosts[n])])

\* two checks are through, one dial failed and one connection was closed
C15_Witness ==
    /\ mainpc = "exited"
    /\ Len(hosts) = 2
    /\ BagCardinality(dialed) = 2
    /\ closedConns = 1
    /\ \E n \in 1..2 : received[n].Err.kind = "tls dial"

(***************************************************************************)
(* C16 as stated: the threshold of a check is the clock at the moment the  *)
(* check began plus days, whatever the time the handshake took.            *)
(***************************************************************************)
C16_ThresholdAtStart ==
    \A w \in Workers :
        (Sending(w) /\ wk[w].certExpiry # <<>>) =>
            wk[w].certExpiry[1] = wk[w].began[1] + days

(***************************************************************************)
(* C16 as the code has it: the threshold is the clock read after tls.Dial  *)
(* has returned without error, plus days; it is never before the clock at  *)
(* the start of the check plus days, and a check whose dial fails computes *)
(* no threshold.                                                           *)
(***************************************************************************)
C16_ThresholdAfterDial ==
    /\ [][\A w \in Workers :
            (wk[w].pc = "connected" /\ wk'[w].pc = "send") =>
                wk'[w].certExpiry = <<now + days>>]_vars
    /\ [](\A w \in Workers :
            /\ (Sending(w) /\ wk[w].certExpiry # <<>>) =>
                  /\ ConnOf(w).ok
                  /\ wk[w].began[1] + days <= wk[w].certExpiry[1]
                  /\ wk[w].certExpiry[1] <= now + days
            /\ wk[w].pc \in {"dialing", "connected"} => wk[w].certExpiry = <<>>)

\* the clock moved during the handshake and the threshold moved with it
C16_Witness ==
    \E w \in Workers :
        /\ Sending(w)
        /\ wk[w].certExpiry # <<>>
        /\ wk[w].certExpiry[1] = wk[w].began[1] + days + 1

(***************************************************************************)
(* C17: a successful dial that yields no certificate gives a result        *)
(* without error, whatever the threshold.                                  *)
(***************************************************************************)
C17_EmptyChain ==
    /\ \A w \in Workers :
          (Sending(w) /\ ConnOf(w).ok /\ ConnOf(w).chain = <<>>) =>
              (wk[w].certExpiry # <<>> /\ wk[w].r.Err = nil)
    /\ \A n \in DOMAIN received :
          LET conn == net[ConnectHost(received[n].Hostname)] IN
          (conn.ok /\ conn.chain = <<>>) => received[n].Err = nil

\* an empty chain has passed against the largest threshold of the model
C17_Witness ==
    \E w \in Workers :
        /\ Sending(w)
        /\ ConnOf(w).ok
        /\ ConnOf(w).chain = <<>>
        /\ wk[w].certExpiry = <<MaxClock + MaxDays>>
        /\ wk[w].r.Err = nil

\* the hostnames held by the workers of S, one for each worker
RECURSIVE HeldBy(_)
HeldBy(S) ==
    IF S = {} THEN EmptyBag
    ELSE LET w == CHOOSE x \in S : TRUE
         IN SetToBag({wk[w].host}) (+) HeldBy(S \ {w})

(***************************************************************************)
(* C18: the checks in flight (hostnames sent whose result main has not     *)
(* received) are held one by each worker that is inside a check, these     *)
(* workers are among workers 1..concurrency, and so the checks in flight   *)
(* never exceed the concurrency (and are none when it is zero or less).    *)
(***************************************************************************)
C18_BoundedInFlight ==
    /\ SeqToBag(SubSeq(hosts, 1, k - 1))
          = SeqToBag(HostnamesOf(received)) (+) HeldBy(InFlight)
    /\ InFlight \subseteq 1..concurrency
    /\ (k - 1) - Len(received) <= (IF concurrency > 0 THEN concurrency ELSE 0)

\* as many checks in flight as there are workers
C18_Witness ==
    /\ concurrency = 2
    /\ (k - 1) - Len(received) = 2
    /\ Cardinality(InFlight) = 2

\* result r is what a check of r.Hostname gives on its own address and chain,
\* with a threshold read at some moment up to now
OwnOutcome(r) ==
    LET conn == net[ConnectHost(r.Hostname)] IN
    IF conn.ok
    THEN \E t \in 0..now : r.Err = RangeCerts(conn.chain, CertExpiry(t, days), 1)
    ELSE r.Err.kind = "tls dial"

(***************************************************************************)
(* C19: every result, when a worker is about to send it and when main has  *)
(* received it, carries the error (or none) that the check of its own      *)
(* hostname gives, also when another check runs at the same time.          *)
(***************************************************************************)
C19_OwnOutcome ==
    /\ \A w \in Workers :
          Sending(w) => (wk[w].r.Hostname = wk[w].host /\ OwnOutcome(wk[w].r))
    /\ \A n \in DOMAIN received : OwnOutcome(received[n])

\* two workers hold results at the same time, for different hostnames, one
\* failing and one passing
C19_Witness ==
    \E v, w \in Workers :
        /\ Sending(v)
        /\ Sending(w)
        /\ wk[v].host # wk[w].host
        /\ HasErr(wk[v].r)
        /\ ~HasErr(wk[w].r)

\* main has its hostname list, and the list is empty
EmptyRun ==
    /\ hosts = <<>>
    /\ mainpc \notin {"args", "file"}
    /\ ~(Len(hostsFile) > 0 /\ disk.state # "ok")

\* a step of main
MainStep == MainStartWorker \/ MainStartProducer \/ MainConsumeDone \/ MainExit

(***************************************************************************)
(* C20: with an empty hostname list, for every concurrency, main receives  *)
(* nothing, nothing is dialed, main always has a step to take until it     *)
(* exits, and it exits with status 0; the producer sends nothing, and its  *)
(* one step is to close the queue, which needs no worker.                  *)
(***************************************************************************)
C20_EmptyList ==
    EmptyRun =>
        /\ received = <<>>
        /\ stderr = <<>>
        /\ dialed = EmptyBag
        /\ k = 1
        /\ \A w \in Workers : ~Holding(w)
        /\ mainpc = "exited" => exitStatus = 0
        /\ mainpc # "exited" => ENABLED MainStep
        /\ (prodpc = "send" /\ Alive) => ENABLED ProducerClose
        /\ queueClosed => prodpc = "done"

\* no hostname and a negative concurrency: the queue was closed unused and
\* main has exited with status 0
C20_Witness ==
    /\ EmptyRun
    /\ concurrency < 0
    /\ mainpc = "exited"
    /\ exitStatus = 0
    /\ queueClosed
    /\ k = 1

=============================================================================
